---- MODULE Spec2Model ----
(***************************************************************************)
(* Model of src/main.py: the /chat endpoint of the chat assistant and the  *)
(* in-memory store conversation_histories it keeps.                        *)
(*                                                                         *)
(* Python lists are objects: conversation_histories maps a session id to a *)
(* reference to a list, and the handler's local `history` is a reference   *)
(* too.  The heap below holds the list objects; the list that request r    *)
(* creates with the default `[]` of dict.get has reference r.              *)
(*                                                                         *)
(* chat_endpoint is an `async def` that never awaits: model.chat(context)  *)
(* is an ordinary call.  The event loop therefore runs one handler body at *)
(* a time, from its first line to its return or raise.  Requests are in    *)
(* flight concurrently (several may be received and waiting), but the      *)
(* bodies do not interleave.  `running` is the request whose body occupies *)
(* the event loop.                                                         *)
(*                                                                         *)
(* upload_media awaits file.read(): between its call and its return other  *)
(* handlers may run.                                                       *)
(*                                                                         *)
(* Strings built by formatting are sequences of their parts, in order.     *)
(***************************************************************************)
EXTENDS Integers, Sequences, FiniteSets, TLC

\* Number of chat requests sent to the process in one execution.
MaxReqs == 3

Reqs == 1..MaxReqs

\* An optional JSON field: <<>> when the field is absent, <<v>> when present.
Absent == <<>>
Some(v) == <<v>>

\* Values the fields of a request body are drawn from.
SessionIds == {"s1", "s2"}
Texts == {"hello", "how are you"}

\* Outcomes of model.chat(context): a reply text, or an exception whose
\* str() is the cause.
Replies == {"hi there"}
Causes == {"timeout"}

\* Variant of Message that ignores the role it is given.
MessageAlwaysUser(role, content) == [role |-> "user", content |-> content]

\* class Message(BaseModel)
Message(role, content) == [role |-> role, content |-> content]

\* class ChatRequest(BaseModel)
ChatRequest(session_id, message, model_name) ==
    [session_id |-> session_id, message |-> message, model_name |-> model_name]

\* The request bodies sent: ordinary ones, one that names a model, ones with
\* an empty string, and ones with a required field missing.
ChatRequests ==
    {ChatRequest(Some(s), Some(m), Absent) : s \in SessionIds, m \in Texts}
    \cup {ChatRequest(Some("s1"), Some("hello"), Some("gpt"))}
    \cup {ChatRequest(Some(""), Some("hello"), Absent),
          ChatRequest(Some("s1"), Some(""), Absent)}
    \cup {ChatRequest(Absent, Some("hello"), Absent),
          ChatRequest(Some("s1"), Absent, Absent)}

\* The request bodies sent in the executions checked for progress.
LiveChatRequests ==
    {ChatRequest(Some(s), Some("hello"), Absent) : s \in SessionIds}
    \cup {ChatRequest(Some("s1"), Some("how are you"), Absent),
          ChatRequest(Absent, Some("hello"), Absent)}

NoRequest == ChatRequest(Absent, Absent, Absent)

\* What the caller receives.  status 0: no response yet.
Response(status, reply, conversation, detail) ==
    [status |-> status, reply |-> reply, conversation |-> conversation,
     detail |-> detail]

NoResponse == Response(0, "", <<>>, <<>>)

\* What model.chat(context) did: kind "none" (not completed), "returned"
\* (value: the reply) or "raised" (value: str() of the exception).
Outcome(kind, value) == [kind |-> kind, value |-> value]

NoOutcome == Outcome("none", "")

\* The multipart form of POST /upload: session_id and file, each required.
UploadForm(session_id, file) == [session_id |-> session_id, file |-> file]

\* An uploaded file: its name and the bytes file.read() gives.
UploadFile(filename, content) == [filename |-> filename, content |-> content]

Files == {UploadFile("a.png", <<"b1", "b2">>)}

\* The forms sent: for a session that chats, for one that may not, and one
\* with a required field missing.
UploadForms ==
    {UploadForm(Some(s), Some(f)) : s \in SessionIds, f \in Files}
    \cup {UploadForm(Absent, Some(f)) : f \in Files}

NoUpload == UploadForm(Absent, Absent)

\* What the caller of /upload receives.  status 0: no response yet.
UploadResponse(status, filename, size, message, detail) ==
    [status |-> status, filename |-> filename, size |-> size,
     message |-> message, detail |-> detail]

NoUploadResponse == UploadResponse(0, "", 0, "", <<>>)

VARIABLES
    upload,                 \* request -> its form, for a POST /upload
    upload_response,        \* request -> what the caller of /upload received
    conversation_histories, \* session id -> reference of its list
    heap,                   \* reference -> the list's elements
    pc,                     \* request -> "idle", "received", "calling", "done"
    request,                \* request -> its body
    history,                \* request -> the handler's local `history`
    context,                \* request -> the handler's local `context`
    response,               \* request -> what the caller received
    running,                \* the request whose handler body is executing, or 0
    model_outcome,          \* request -> what model.chat did for it
    model_called,           \* request -> the model object whose chat() it called, "" if none
    entry_transcript        \* request -> the session's transcript when its handler began

\* The state of the uploads.
upload_vars == <<upload, upload_response>>

\* The session store: the dict and the lists it references.
store_vars == <<conversation_histories, heap>>

\* The state of the chat requests, apart from the store.
chat_vars == <<request, history, context, response, running, model_outcome,
               model_called, entry_transcript>>

vars == <<conversation_histories, heap, pc, request, history, context,
          response, running, model_outcome, model_called, entry_transcript,
          upload, upload_response>>

\* The turns stored for a session; no turns when the session has no entry.
Transcript(sid) ==
    IF sid \in DOMAIN conversation_histories
    THEN heap[conversation_histories[sid]]
    ELSE <<>>

\* Fields of ChatRequest: session_id and message are required str,
\* model_name is Optional with a default.  Any str passes, the empty one too.
MissingFields(body) ==
    (IF body.session_id = Absent THEN <<"session_id">> ELSE <<>>)
    \o (IF body.message = Absent THEN <<"message">> ELSE <<>>)

ChatRequestValid(body) == MissingFields(body) = <<>>

\* Variant of GetHistory that never reads the store: every request starts
\* from a new list.
GetHistoryAlwaysFresh(store, sid, fresh) == fresh

\* conversation_histories.get(session_id, []): the stored reference, or the
\* fresh list when the key is absent.
GetHistory(store, sid, fresh) ==
    IF sid \in DOMAIN store THEN store[sid] ELSE fresh

\* Variant of ListAppend that puts the message in front (insert(0, msg)).
ListAppendFront(h, ref, msg) == [h EXCEPT ![ref] = <<msg>> \o @]

\* history.append(msg): the list object is changed in place.
ListAppend(h, ref, msg) == [h EXCEPT ![ref] = Append(@, msg)]

\* Variant of StoreHistory that is not keyed by session: the list becomes the
\* history of every stored session.
StoreHistoryUnkeyed(store, sid, ref) ==
    [k \in DOMAIN store \cup {sid} |-> ref]

\* conversation_histories[session_id] = history
StoreHistory(store, sid, ref) ==
    [k \in DOMAIN store \cup {sid} |-> IF k = sid THEN ref ELSE store[k]]

\* Variant of SerializeContext that sends only the last turn.
SerializeLastTurn(msgs) ==
    IF msgs = <<>> THEN <<>>
    ELSE <<msgs[Len(msgs)].role, ": ", msgs[Len(msgs)].content>>

\* "\n".join([f"{msg.role}: {msg.content}" for msg in history])
RECURSIVE SerializeContext(_)
SerializeContext(msgs) ==
    IF msgs = <<>> THEN <<>>
    ELSE LET line == <<msgs[1].role, ": ", msgs[1].content>>
         IN  IF Len(msgs) = 1 THEN line
             ELSE line \o <<"\n">> \o SerializeContext(Tail(msgs))

\* Variant of ModelErrorDetail that hides the cause behind a fixed text.
ModelErrorDetailGeneric(cause) == <<"Internal Server Error">>

\* The inner handler raises HTTPException(500, "Model inference error: <cause>");
\* the outer `except Exception` catches it and raises
\* HTTPException(500, detail=str(e)), and str() of an HTTPException is
\* "<status_code>: <detail>".
ModelErrorDetail(cause) == <<"500", ": ">> \o <<"Model inference error: ", cause>>

\* Variant of ErrorResponse for a handler that swallows the exception and
\* answers nothing.
ErrorResponseSwallowed(cause) == Response(0, "", <<>>, <<>>)

\* The 500 response FastAPI makes of the HTTPException raised at line 70.
ErrorResponse(cause) == Response(500, "", <<>>, ModelErrorDetail(cause))

\* The 422 response FastAPI makes of a body that is no ChatRequest.
ValidationErrorResponse(body) == Response(422, "", <<>>, MissingFields(body))

\* Variant of ChatResponse that returns the history without its last turn.
ChatResponseStale(reply, msgs) ==
    Response(200, reply, SubSeq(msgs, 1, Len(msgs) - 1), <<>>)

\* ChatResponse(reply=reply_text, conversation=history): validation copies the list.
ChatResponse(reply, msgs) == Response(200, reply, msgs, <<>>)

\* Variant of EventLoopFree for a handler that yields to the event loop while
\* the model call is pending (an awaited call): bodies interleave.
EventLoopYields == TRUE

\* The event loop is free: no handler body is between its first line and its end.
EventLoopFree == running = 0

Init ==
    /\ conversation_histories = <<>>
    /\ heap = [r \in Reqs |-> <<>>]
    /\ pc = [r \in Reqs |-> "idle"]
    /\ request = [r \in Reqs |-> NoRequest]
    /\ history = [r \in Reqs |-> 0]
    /\ context = [r \in Reqs |-> <<>>]
    /\ response = [r \in Reqs |-> NoResponse]
    /\ running = 0
    /\ model_outcome = [r \in Reqs |-> NoOutcome]
    /\ model_called = [r \in Reqs |-> ""]
    /\ entry_transcript = [r \in Reqs |-> <<>>]
    /\ upload = [r \in Reqs |-> NoUpload]
    /\ upload_response = [r \in Reqs |-> NoUploadResponse]

\* A POST /chat arrives.  Requests are numbered in order of arrival.
Receive(r, body) ==
    /\ pc[r] = "idle"
    /\ \A q \in Reqs : q < r => pc[q] # "idle"
    /\ pc' = [pc EXCEPT ![r] = "received"]
    /\ request' = [request EXCEPT ![r] = body]
    /\ UNCHANGED <<conversation_histories, heap, history, context, response,
                   running, model_outcome, entry_transcript>>
    /\ UNCHANGED <<model_called, upload_vars>>

\* The body does not validate as a ChatRequest: 422, the handler is not called.
RejectRequest(r) ==
    /\ pc[r] = "received"
    /\ EventLoopFree
    /\ ~ChatRequestValid(request[r])
    /\ pc' = [pc EXCEPT ![r] = "done"]
    /\ response' = [response EXCEPT ![r] = ValidationErrorResponse(request[r])]
    /\ UNCHANGED <<conversation_histories, heap, request, history, context,
                   running, model_outcome, entry_transcript>>
    /\ UNCHANGED <<model_called, upload_vars>>

\* The values of model_name that a body may carry.
ModelNameInputs == {Absent, Some(""), Some("gpt"), Some("other")}

\* Variant of SelectModel with line 52 in force: a truthy model_name selects
\* the model of that name.
SelectModelByName(model_name) ==
    IF model_name # Absent /\ model_name # Some("") THEN model_name[1] ELSE "default"

\* Lines 47-53: `if model_name: pass`.  The model called is the global
\* `model` of line 12 whatever model_name is.
SelectModel(model_name) == "default"

\* chat_endpoint, lines 37-59, for request r with the given body: up to the
\* call of model.chat(context).
ChatCallWith(r, body) ==
    /\ pc[r] = "received"
    /\ EventLoopFree
    /\ ChatRequestValid(body)
    /\ LET session_id == body.session_id[1]
           user_message == body.message[1]
           ref == GetHistory(conversation_histories, session_id, r)
           h == ListAppend(heap, ref, Message("user", user_message))
       IN  /\ history' = [history EXCEPT ![r] = ref]
           /\ heap' = h
           /\ context' = [context EXCEPT ![r] = SerializeContext(h[ref])]
           /\ entry_transcript' =
                  [entry_transcript EXCEPT ![r] = Transcript(session_id)]
    /\ model_called' = [model_called EXCEPT ![r] = SelectModel(body.model_name)]
    /\ pc' = [pc EXCEPT ![r] = "calling"]
    /\ running' = r
    /\ UNCHANGED <<conversation_histories, request, response, model_outcome>>
    /\ UNCHANGED upload_vars

\* chat_endpoint, lines 37-59: up to the call of model.chat(context).
ChatCall(r) == ChatCallWith(r, request[r])

\* chat_endpoint, lines 59-67, for request r with the given body: model.chat
\* returns reply_text.
ModelReturnsWith(r, body, reply_text) ==
    /\ pc[r] = "calling"
    /\ LET session_id == body.session_id[1]
           h == ListAppend(heap, history[r], Message("assistant", reply_text))
       IN  /\ heap' = h
           /\ conversation_histories' =
                  StoreHistory(conversation_histories, session_id, history[r])
           /\ response' = [response EXCEPT
                             ![r] = ChatResponse(reply_text, h[history[r]])]
    /\ model_outcome' = [model_outcome EXCEPT ![r] = Outcome("returned", reply_text)]
    /\ pc' = [pc EXCEPT ![r] = "done"]
    /\ running' = 0
    /\ UNCHANGED <<request, history, context, entry_transcript>>
    /\ UNCHANGED <<model_called, upload_vars>>

\* chat_endpoint, lines 59-67: model.chat returns reply_text.
ModelReturns(r, reply_text) == ModelReturnsWith(r, request[r], reply_text)

\* Variant of ModelRaises that stores the history before the error leaves the
\* handler.
ModelRaisesStoring(r, cause) ==
    /\ pc[r] = "calling"
    /\ conversation_histories' =
           StoreHistory(conversation_histories, request[r].session_id[1], history[r])
    /\ response' = [response EXCEPT ![r] = ErrorResponse(cause)]
    /\ model_outcome' = [model_outcome EXCEPT ![r] = Outcome("raised", cause)]
    /\ pc' = [pc EXCEPT ![r] = "done"]
    /\ running' = 0
    /\ UNCHANGED <<heap, request, history, context, entry_transcript>>
    /\ UNCHANGED <<model_called, upload_vars>>

\* chat_endpoint, lines 59-61 and 69-70: model.chat raises.
ModelRaises(r, cause) ==
    /\ pc[r] = "calling"
    /\ response' = [response EXCEPT ![r] = ErrorResponse(cause)]
    /\ model_outcome' = [model_outcome EXCEPT ![r] = Outcome("raised", cause)]
    /\ pc' = [pc EXCEPT ![r] = "done"]
    /\ running' = 0
    /\ UNCHANGED <<conversation_histories, heap, request, history, context,
                   entry_transcript>>
    /\ UNCHANGED <<model_called, upload_vars>>

\* The form fields missing from a POST /upload.
MissingFormFields(form) ==
    (IF form.session_id = Absent THEN <<"session_id">> ELSE <<>>)
    \o (IF form.file = Absent THEN <<"file">> ELSE <<>>)

\* The dict returned at line 82.
UploadOk(file) ==
    UploadResponse(200, file.filename, Len(file.content),
                   "Media uploaded successfully.", <<>>)

\* HTTPException(status_code=500, detail=f"Upload failed: {str(e)}")
UploadError(cause) == UploadResponse(500, "", 0, "", <<"Upload failed: ", cause>>)

\* A POST /upload arrives.
UploadReceive(r, form) ==
    /\ pc[r] = "idle"
    /\ \A q \in Reqs : q < r => pc[q] # "idle"
    /\ pc' = [pc EXCEPT ![r] = "upload_received"]
    /\ upload' = [upload EXCEPT ![r] = form]
    /\ UNCHANGED <<store_vars, chat_vars, upload_response>>

\* A form field is missing: 422, the handler is not called.
UploadReject(r) ==
    /\ pc[r] = "upload_received"
    /\ EventLoopFree
    /\ MissingFormFields(upload[r]) # <<>>
    /\ pc' = [pc EXCEPT ![r] = "uploaded"]
    /\ upload_response' =
           [upload_response EXCEPT
              ![r] = UploadResponse(422, "", 0, "", MissingFormFields(upload[r]))]
    /\ UNCHANGED <<store_vars, chat_vars, upload>>

\* upload_media, lines 73-79: the handler begins and awaits file.read().
UploadRead(r) ==
    /\ pc[r] = "upload_received"
    /\ EventLoopFree
    /\ MissingFormFields(upload[r]) = <<>>
    /\ pc' = [pc EXCEPT ![r] = "reading"]
    /\ UNCHANGED <<store_vars, chat_vars, upload_vars>>

\* Variant of UploadReturns that records the upload as a turn of the session.
UploadReturnsRecording(r) ==
    /\ pc[r] = "reading"
    /\ EventLoopFree
    /\ LET sid == upload[r].session_id[1]
           ref == GetHistory(conversation_histories, sid, r)
       IN  /\ heap' = ListAppend(heap, ref,
                                 Message("user", upload[r].file[1].filename))
           /\ conversation_histories' =
                  StoreHistory(conversation_histories, sid, ref)
    /\ pc' = [pc EXCEPT ![r] = "uploaded"]
    /\ upload_response' = [upload_response EXCEPT ![r] = UploadOk(upload[r].file[1])]
    /\ UNCHANGED <<chat_vars, upload>>

\* upload_media, lines 79-82: file.read() gives the content, the handler returns.
UploadReturns(r) ==
    /\ pc[r] = "reading"
    /\ EventLoopFree
    /\ pc' = [pc EXCEPT ![r] = "uploaded"]
    /\ upload_response' = [upload_response EXCEPT ![r] = UploadOk(upload[r].file[1])]
    /\ UNCHANGED <<store_vars, chat_vars, upload>>

\* upload_media, lines 79 and 83-84: file.read() raises.
UploadFails(r, cause) ==
    /\ pc[r] = "reading"
    /\ EventLoopFree
    /\ pc' = [pc EXCEPT ![r] = "uploaded"]
    /\ upload_response' = [upload_response EXCEPT ![r] = UploadError(cause)]
    /\ UNCHANGED <<store_vars, chat_vars, upload>>

\* model.chat(context) returns or raises for request r.
ModelCompletes(r) ==
    \/ \E reply_text \in Replies : ModelReturns(r, reply_text)
    \/ \E cause \in Causes : ModelRaises(r, cause)

\* The steps of the process when the requests sent have bodies in `bodies`.
NextOver(bodies) ==
    \/ \E r \in Reqs, body \in bodies : Receive(r, body)
    \/ \E r \in Reqs : RejectRequest(r)
    \/ \E r \in Reqs : ChatCall(r)
    \/ \E r \in Reqs, reply_text \in Replies : ModelReturns(r, reply_text)
    \/ \E r \in Reqs, cause \in Causes : ModelRaises(r, cause)

Next == NextOver(ChatRequests)

Spec == Init /\ [][Next]_vars

\* Every model call eventually returns or raises: the call is synchronous and
\* the handler continues as soon as it ends.
FairSpec ==
    /\ Init
    /\ [][NextOver(LiveChatRequests)]_vars
    /\ \A r \in Reqs : WF_vars(ModelCompletes(r))

\* The steps of the uploads.
UploadNext ==
    \/ \E r \in Reqs, form \in UploadForms : UploadReceive(r, form)
    \/ \E r \in Reqs : UploadReject(r)
    \/ \E r \in Reqs : UploadRead(r)
    \/ \E r \in Reqs : UploadReturns(r)
    \/ \E r \in Reqs, cause \in Causes : UploadFails(r, cause)

\* Executions in which each request is a POST /chat or a POST /upload.
UploadSpec ==
    Init /\ [][NextOver(LiveChatRequests) \/ UploadNext]_vars

(***************************************************************************)
(* Notions the properties are stated with.                                 *)
(***************************************************************************)

\* The keys a request body can name.
SessionKeys == SessionIds \cup {""}

\* The requests received so far that validate and name session sid.
ReqsFor(sid) ==
    {r \in Reqs : pc[r] # "idle" /\ ChatRequestValid(request[r])
                  /\ request[r].session_id = Some(sid)}

\* The requests for session sid whose handler has begun.
HandledFor(sid) == {r \in ReqsFor(sid) : pc[r] \in {"calling", "done"}}

Succeeded(r) == pc[r] = "done" /\ response[r].status = 200

Failed(r) == pc[r] = "done" /\ response[r].status = 500

UserTurn(r) == Message("user", request[r].message[1])

IsPrefix(a, b) == Len(a) <= Len(b) /\ SubSeq(b, 1, Len(a)) = a

Alternates(t) ==
    \A i \in 1..Len(t) : t[i].role = (IF i % 2 = 1 THEN "user" ELSE "assistant")

(***************************************************************************)
(* Properties.                                                             *)
(***************************************************************************)

\* C1: when the N requests handled so far for a session (which had no entry
\* at the start) all succeeded, its stored transcript has exactly 2*N turns
\* and its roles alternate user, assistant, ... starting with user.
C1_SuccessfulTurnsAlternate ==
    \A sid \in SessionKeys :
        (\A r \in HandledFor(sid) : Succeeded(r))
        => /\ Len(Transcript(sid)) = 2 * Cardinality(HandledFor(sid))
           /\ Alternates(Transcript(sid))

\* Three successful requests were handled for one session and no other.
C1_Witness ==
    \E sid \in SessionKeys :
        /\ Cardinality(HandledFor(sid)) >= 3
        /\ \A r \in HandledFor(sid) : Succeeded(r)
        /\ Len(Transcript(sid)) = 6

\* C2: the step in which a request's model call fails leaves the session's
\* stored transcript with that request's user turn as its last turn.
C2_FailedCallKeepsUserTurn ==
    [][\A r \in Reqs :
          (pc[r] = "calling" /\ Failed(r)')
          => LET t == Transcript(request[r].session_id[1])'
             IN  t # <<>> /\ t[Len(t)] = UserTurn(r)]_vars

\* C3: when all requests received for a session are answered and no model
\* call of theirs raised, each got a 200, the transcript has exactly 2*N
\* turns, and each request's user turn and assistant turn are adjacent, at a
\* place of the transcript no other request's pair occupies.
PairEnd(r) == Len(response[r].conversation)

C3_ConcurrentRequestsKeepPairs ==
    \A sid \in SessionKeys :
        LET rs == ReqsFor(sid)
            t == Transcript(sid)
        IN  (\A r \in rs : pc[r] = "done" /\ model_outcome[r].kind = "returned")
            => /\ \A r \in rs : response[r].status = 200
               /\ Len(t) = 2 * Cardinality(rs)
               /\ \A r \in rs :
                     /\ PairEnd(r) \in 2..Len(t)
                     /\ t[PairEnd(r) - 1] = UserTurn(r)
                     /\ t[PairEnd(r)] = Message("assistant", response[r].reply)
               /\ \A r, q \in rs : r # q => PairEnd(r) # PairEnd(q)

\* Two requests for one session were in flight together (the later arrival
\* was handled first) and both are answered with success.
C3_Witness ==
    \E sid \in SessionKeys : \E r, q \in ReqsFor(sid) :
        /\ r < q
        /\ \A x \in ReqsFor(sid) : Succeeded(x)
        /\ PairEnd(q) < PairEnd(r)

\* C4: a step of a request for session A changes neither the presence nor
\* the turns of any other session B.
C4_OtherSessionsUntouched ==
    [][\A r \in Reqs :
          pc'[r] # pc[r]
          => \A b \in SessionKeys :
                request'[r].session_id # Some(b)
                => /\ (b \in DOMAIN conversation_histories')
                        <=> (b \in DOMAIN conversation_histories)
                   /\ Transcript(b)' = Transcript(b)]_vars

\* Two sessions are stored, and a request of one failed after the other was
\* stored or while it was.
C4_Witness ==
    /\ Cardinality(DOMAIN conversation_histories) >= 2
    /\ \E r \in Reqs : Failed(r) /\ entry_transcript[r] # <<>>

\* C5: a request whose session_id or message is the empty string or absent
\* is answered 4xx, the model is not invoked for it and no list is touched.
EmptyOrAbsent(field) == field = Absent \/ field = Some("")

C5_EmptyOrAbsentIsBadRequest ==
    \A r \in Reqs :
        (/\ pc[r] \in {"calling", "done"}
         /\ EmptyOrAbsent(request[r].session_id) \/ EmptyOrAbsent(request[r].message))
        => /\ response[r].status \in 400..499
           /\ context[r] = <<>>
           /\ model_outcome[r] = NoOutcome
           /\ history[r] = 0

\* C6: the step in which a request succeeds returns the model's reply and a
\* conversation that is the session's transcript as it was when the handler
\* began, then the request's user turn, then an assistant turn with the
\* returned reply; and that conversation is the session's stored transcript
\* after the step.
C6_ResponseIsUpdatedTranscript ==
    [][\A r \in Reqs :
          (pc[r] = "calling" /\ Succeeded(r)')
          => /\ response'[r].reply = model_outcome'[r].value
             /\ response'[r].conversation =
                    entry_transcript[r]
                    \o <<UserTurn(r), Message("assistant", response'[r].reply)>>
             /\ response'[r].conversation =
                    Transcript(request[r].session_id[1])']_vars

\* A request succeeded on a session that already had turns.
C6_Witness ==
    \E r \in Reqs : Succeeded(r) /\ Len(entry_transcript[r]) >= 2

\* Whether a text built from parts contains the given part.
Carries(detail, part) == \E i \in 1..Len(detail) : detail[i] = part

\* C7: an answered request has status 200 exactly when its model call
\* returned; when the model call raised, the status is 500 and the detail
\* carries the cause.
C7_StatusFollowsModelCall ==
    \A r \in Reqs :
        pc[r] = "done"
        => /\ response[r].status = 200 <=> model_outcome[r].kind = "returned"
           /\ model_outcome[r].kind = "raised"
              => /\ response[r].status = 500
                 /\ Carries(response[r].detail, model_outcome[r].value)

\* One request was answered 200 and another 500 after its model call raised.
C7_Witness ==
    \E r, q \in Reqs :
        /\ Succeeded(r)
        /\ Failed(q) /\ model_outcome[q].kind = "raised"

\* The user turns of a transcript that no assistant turn follows.
UnansweredUserTurns(t) ==
    {i \in 1..Len(t) :
        t[i].role = "user" /\ (i = Len(t) \/ t[i + 1].role # "assistant")}

\* C8 as stated: no stored transcript has two consecutive user turns.
C8_NoConsecutiveUserTurns ==
    \A sid \in SessionKeys : \A i \in 1..(Len(Transcript(sid)) - 1) :
        ~(Transcript(sid)[i].role = "user" /\ Transcript(sid)[i + 1].role = "user")

\* C8, amended: in every stored transcript each assistant turn directly
\* follows a user turn, and the user turns that no assistant turn follows
\* are at most as many as the session's requests that failed or are waiting
\* for the model.
C8_UnansweredTurnsAreFailedRequests ==
    \A sid \in SessionKeys :
        LET t == Transcript(sid)
        IN  /\ \A i \in 1..Len(t) :
                  t[i].role = "assistant" => i > 1 /\ t[i - 1].role = "user"
            /\ Cardinality(UnansweredUserTurns(t))
                  <= Cardinality({r \in HandledFor(sid) : ~Succeeded(r)})

\* A stored transcript has a failed request's user turn followed by the
\* user turn and the assistant turn of a later request.
C8_Witness ==
    \E sid \in SessionKeys :
        LET t == Transcript(sid)
        IN  \E i \in 1..(Len(t) - 2) :
               /\ t[i].role = "user"
               /\ t[i + 1].role = "user"
               /\ t[i + 2].role = "assistant"

\* C9: in every step no session entry is removed and each session's stored
\* transcript before the step is a prefix of its transcript after the step.
C9_StoreOnlyGrows ==
    [][\A sid \in SessionKeys :
          /\ sid \in DOMAIN conversation_histories
             => sid \in DOMAIN conversation_histories'
          /\ IsPrefix(Transcript(sid), Transcript(sid)')]_vars

\* A stored transcript grew after it was stored.
C9_Witness ==
    \E sid \in SessionKeys : Len(Transcript(sid)) >= 3

\* The request's assistant turn stands right after its user turn in the list
\* the handler worked on.
AssistantTurnFollows(r) ==
    /\ Succeeded(r)
    /\ LET t == heap[history[r]]
           n == Len(entry_transcript[r])
       IN  /\ Len(t) >= n + 2
           /\ t[n + 1] = UserTurn(r)
           /\ t[n + 2] = Message("assistant", response[r].reply)

\* C10: once a request has appended its user turn and called the model, it
\* eventually has appended its assistant turn or been answered with an error.
C10_UserTurnIsAnswered ==
    \A r \in Reqs :
        (pc[r] = "calling") ~> (AssistantTurnFollows(r) \/ response[r].status >= 400)

\* A request whose user turn was recorded in a stored transcript ended with
\* an error response.
C10_Witness ==
    \E r \in Reqs :
        /\ Failed(r)
        /\ entry_transcript[r] # <<>>
        /\ heap[history[r]][Len(entry_transcript[r]) + 1] = UserTurn(r)

\* C11: a step of an upload request changes neither the session store nor
\* any list: no entry is created and no turn is added.
C11_UploadLeavesStoreUnchanged ==
    [][\A r \in Reqs :
          (pc'[r] # pc[r] /\ pc'[r] \in {"upload_received", "reading", "uploaded"})
          => /\ conversation_histories' = conversation_histories
             /\ heap' = heap
             /\ \A sid \in SessionKeys : Transcript(sid)' = Transcript(sid)]_vars

\* An upload was answered 200 for a session that has a stored transcript, and
\* another for a session that has no entry.
C11_Witness ==
    \E r, q \in Reqs :
        /\ pc[r] = "uploaded" /\ upload_response[r].status = 200
        /\ upload[r].session_id[1] \in DOMAIN conversation_histories
        /\ upload_response[r].size = 2
        /\ pc[q] = "uploaded" /\ upload_response[q].status = 200
        /\ upload[q].session_id[1] \notin DOMAIN conversation_histories

\* The body with its model_name replaced.
WithModelName(body, model_name) == [body EXCEPT !.model_name = model_name]

\* C12: every step of a chat handler is also the step the handler takes,
\* from the same state and with the same model outcome, for the same request
\* carrying any other model_name: the same model is called with the same
\* context, the same response is given and the store ends the same.  (Two
\* executions that differ only in the model_name values therefore agree step
\* by step.)
C12_ModelNameHasNoEffect ==
    [][\A r \in Reqs : \A n \in ModelNameInputs :
          /\ ChatCall(r) => ChatCallWith(r, WithModelName(request[r], n))
          /\ \A reply_text \in Replies :
                ModelReturns(r, reply_text)
                => ModelReturnsWith(r, WithModelName(request[r], n), reply_text)]_vars

\* A request that names a model and one that names none were both answered
\* 200 for the same session, by the same model.
C12_Witness ==
    \E r, q \in Reqs :
        /\ Succeeded(r) /\ request[r].model_name = Some("gpt")
        /\ Succeeded(q) /\ request[q].model_name = Absent
        /\ request[r].session_id = request[q].session_id
        /\ model_called[r] = model_called[q]
        /\ model_called[r] # ""

\* C13: the context a request passes to the model is the serialization, in
\* order, of the turns stored for its session when its handler began
\* (user turns of earlier failed requests among them) followed by its own
\* user turn; the text built from it names each of these turns and no other.
C13_ContextIsWholeTranscript ==
    \A r \in Reqs :
        model_called[r] # ""
        => LET turns == entry_transcript[r] \o <<UserTurn(r)>>
           IN  /\ context[r] = SerializeContext(turns)
               /\ Len(context[r]) = 4 * Len(turns) - 1
               /\ \A i \in 1..Len(turns) :
                     /\ context[r][4 * i - 3] = turns[i].role
                     /\ context[r][4 * i - 2] = ": "
                     /\ context[r][4 * i - 1] = turns[i].content
                     /\ i < Len(turns) => context[r][4 * i] = "\n"

\* A request called the model on a session whose stored transcript held a
\* successful pair and then the user turn of a failed request.
C13_Witness ==
    \E r \in Reqs :
        /\ model_called[r] # ""
        /\ Len(entry_transcript[r]) = 3
        /\ entry_transcript[r][3].role = "user"
        /\ context[r][9] = "user"
        /\ context[r][13] = "user"

\* C14: when a request is for a session that has no entry and its model call
\* fails, neither its handler's steps up to the call nor the failure change
\* the store: no entry appears and every stored transcript stays as it was.
C14_FailureOnNewSessionLeavesStore ==
    [][\A r \in Reqs :
          LET sid == request[r].session_id[1]
          IN  (/\ ChatCall(r) \/ (pc[r] = "calling" /\ Failed(r)')
               /\ sid \notin DOMAIN conversation_histories)
              => /\ conversation_histories' = conversation_histories
                 /\ \A k \in SessionKeys : Transcript(k)' = Transcript(k)
                 /\ Transcript(sid)' = <<>>]_vars

\* A request for a session without entry failed and the session still has no
\* entry, while another session is stored.
C14_Witness ==
    \E r \in Reqs :
        /\ Failed(r)
        /\ entry_transcript[r] = <<>>
        /\ request[r].session_id[1] \notin DOMAIN conversation_histories
        /\ conversation_histories # <<>>

\* C15: every stored transcript is non-empty, begins with a user turn, and
\* each of its assistant turns directly follows a user turn.
C15_StoredTranscriptsWellFormed ==
    \A sid \in DOMAIN conversation_histories :
        LET t == Transcript(sid)
        IN  /\ t # <<>>
            /\ t[1].role = "user"
            /\ \A i \in 1..Len(t) :
                  t[i].role = "assistant" => i > 1 /\ t[i - 1].role = "user"

\* A stored transcript holds two user turns in a row and two assistant turns.
C15_Witness ==
    \E sid \in DOMAIN conversation_histories :
        LET t == Transcript(sid)
        IN  /\ Len(t) = 5
            /\ t[3].role = "user" /\ t[4].role = "user"
            /\ t[5].role = "assistant"

====
